---- MODULE Spec2Model ----
(***************************************************************************)
(* State-machine model of the inventory canister                           *)
(* (src/src/inventory_system_backend/src/lib.rs).                          *)
(*                                                                         *)
(* The canister state is the identifier cell ID_COUNTER and the two stable *)
(* maps WAREHOUSE_STORAGE and PRODUCT_STORAGE.  Every update and query     *)
(* entry point is one action; a message runs to completion, so an action   *)
(* is the whole handler.  Strings are sequences of one-character strings,  *)
(* so that Len is the character count used by the length validator and     *)
(* to_lowercase / contains can be computed.                                *)
(*                                                                         *)
(* Observation variables (not canister state): `last` is the most recent   *)
(* call with its payload and its reply, `returned` is the list of ids      *)
(* replied by successful creates, `now` is the value of the system time.   *)
(***************************************************************************)
EXTENDS Integers, Sequences, FiniteSets, TLC

VARIABLES ID_COUNTER, WAREHOUSE_STORAGE, PRODUCT_STORAGE, now, last, returned

vars == <<ID_COUNTER, WAREHOUSE_STORAGE, PRODUCT_STORAGE, now, last, returned>>

store == <<ID_COUNTER, WAREHOUSE_STORAGE, PRODUCT_STORAGE>>

----------------------------------------------------------------------------
(* Bounds of the model *)

\* number of identifiers the model lets the counter hand out
MaxId == 2

\* largest quantity a product payload carries
MaxQty == 1

\* largest value of the system time
MaxTime == 1

(* Program constants *)

\* #[validate(length(min = 3))]
MinLen == 3

----------------------------------------------------------------------------
(* Input domains *)

Ids == 0..(MaxId - 1)

NameInputs == { <<"a","b">>, <<"A","b","c">> }

ProductNameInputs == { <<"a","b">>, <<"w","i","d">> }

AddressInputs == { <<"r","d">>, <<"r","d","1">> }

CategoryInputs == { <<"t">> }

SearchInputs == { <<"B","c">>, <<"a","b">>, <<"z">> }

Quantities == 0..MaxQty

Amounts == 0..(MaxQty + 1)

WarehousePayload == [name : NameInputs, address : AddressInputs]

ProductPayload ==
    [name : ProductNameInputs, category : CategoryInputs,
     quantity : Quantities, warehouse_id : Ids]

EditProductPayload == [name : ProductNameInputs, product_id : Ids]

GetProductPayload == [product_id : Ids, amount : Amounts]

EditWarehousePayload == [warehouse_id : Ids, name : NameInputs]

----------------------------------------------------------------------------
(* Records *)

Warehouse(id, name, address) == [id |-> id, name |-> name, address |-> address]

\* variant: re_stocked_at is left at its default
ProductUnstamped(id, name, quantity, category, warehouse, added_at, re_stocked_at) ==
    [id |-> id, name |-> name, quantity |-> quantity, category |-> category,
     warehouse |-> warehouse, added_at |-> added_at, re_stocked_at |-> 0]

Product(id, name, quantity, category, warehouse, added_at, re_stocked_at) ==
    [id |-> id, name |-> name, quantity |-> quantity, category |-> category,
     warehouse |-> warehouse, added_at |-> added_at,
     re_stocked_at |-> re_stocked_at]

----------------------------------------------------------------------------
(* StableBTreeMap and Cell *)

\* StableBTreeMap::get: Some(value) as a one-element sequence, None as <<>>
Get(map, key) == IF key \in DOMAIN map THEN <<map[key]>> ELSE <<>>

\* variant: insert keeps the value already stored under the key
InsertIfAbsent(map, key, value) ==
    [k \in (DOMAIN map) \cup {key} |->
        IF k \in DOMAIN map THEN map[k] ELSE value]

\* variant: insert into a map that was created anew
InsertIntoNew(map, key, value) == [k \in {key} |-> value]

\* the map after StableBTreeMap::insert(key, value) (upsert)
Insert(map, key, value) ==
    [k \in (DOMAIN map) \cup {key} |-> IF k = key THEN value ELSE map[k]]

\* variant: the counter stops growing after the first id
NextCounterSaturating(current_id) ==
    IF current_id < 1 THEN current_id + 1 ELSE current_id

\* variant: the counter cell is written back unchanged
NextCounterStuck(current_id) == current_id

\* the value the counter cell is set to: current_id + 1
NextCounter(current_id) == current_id + 1

\* variant: the iteration starts from the largest key
Max(S) == CHOOSE x \in S : \A y \in S : x >= y

Min(S) == CHOOSE x \in S : \A y \in S : x <= y

RECURSIVE IterFrom(_, _)
IterFrom(map, keys) ==
    IF keys = {} THEN <<>>
    ELSE LET k == Min(keys) IN <<map[k]>> \o IterFrom(map, keys \ {k})

\* StableBTreeMap::iter, values only: ascending key order
Iter(map) == IterFrom(map, DOMAIN map)

----------------------------------------------------------------------------
(* Strings *)

LowerChar(ch) ==
    CASE ch = "A" -> "a"
      [] ch = "B" -> "b"
      [] ch = "C" -> "c"
      [] OTHER -> ch

\* variant: the text is compared as written
to_lowercase_missing(s) == s

\* str::to_lowercase
to_lowercase(s) == [i \in 1..Len(s) |-> LowerChar(s[i])]

\* str::contains
contains(s, q) ==
    \E i \in 0..(Len(s) - Len(q)) : SubSeq(s, i + 1, i + Len(q)) = q

RECURSIVE Filter(_, _)
Filter(seq, query) ==
    IF seq = <<>> THEN <<>>
    ELSE (IF contains(to_lowercase(Head(seq).name), query)
          THEN <<Head(seq)>> ELSE <<>>) \o Filter(Tail(seq), query)

----------------------------------------------------------------------------
(* Storable: the Candid encoding behind to_bytes / from_bytes.  A message  *)
(* is the magic "DIDL", the type table and the argument value.  The type   *)
(* table is constant for a record type and is kept as a one-byte type tag; *)
(* a value is its fields in ascending field-hash order (id, name, address  *)
(* for Warehouse; id, name, added_at, quantity, category, warehouse,       *)
(* re_stocked_at for Product), nat64 / nat32 as 8 / 4 little-endian bytes, *)
(* text as LEB128 byte length followed by its UTF-8 bytes.                 *)

Alphabet == {"a", "b", "c", "d", "i", "r", "t", "w", "z", "A", "B", "C", "1"}

\* the UTF-8 byte of an ASCII character
CharCode(ch) ==
    CASE ch = "a" -> 97  [] ch = "b" -> 98  [] ch = "c" -> 99
      [] ch = "d" -> 100 [] ch = "i" -> 105 [] ch = "r" -> 114
      [] ch = "t" -> 116 [] ch = "w" -> 119 [] ch = "z" -> 122
      [] ch = "A" -> 65  [] ch = "B" -> 66  [] ch = "C" -> 67
      [] ch = "1" -> 49

CodeChar(byte) == CHOOSE ch \in Alphabet : CharCode(ch) = byte

Magic == <<68, 73, 68, 76>>

WarehouseTag == <<1>>

ProductTag == <<2>>

DecodeTrap == [trap |-> TRUE]

Drop(bytes, n) == SubSeq(bytes, n + 1, Len(bytes))

RECURSIVE LittleEndian(_, _)
LittleEndian(n, width) ==
    IF width = 0 THEN <<>>
    ELSE <<n % 256>> \o LittleEndian(n \div 256, width - 1)

RECURSIVE FromLittleEndian(_)
FromLittleEndian(bytes) ==
    IF bytes = <<>> THEN 0
    ELSE Head(bytes) + 256 * FromLittleEndian(Tail(bytes))

RECURSIVE Leb128(_)
Leb128(n) ==
    IF n < 128 THEN <<n>> ELSE <<128 + (n % 128)>> \o Leb128(n \div 128)

EncodeText(s) == Leb128(Len(s)) \o [i \in 1..Len(s) |-> CharCode(s[i])]

\* readers return the value read and the bytes that follow it
ReadNat(bytes, width) ==
    [value |-> FromLittleEndian(SubSeq(bytes, 1, width)),
     rest |-> Drop(bytes, width)]

RECURSIVE ReadLeb128(_)
ReadLeb128(bytes) ==
    IF Head(bytes) < 128
    THEN [value |-> Head(bytes), rest |-> Tail(bytes)]
    ELSE LET more == ReadLeb128(Tail(bytes)) IN
         [value |-> (Head(bytes) - 128) + 128 * more.value, rest |-> more.rest]

ReadText(bytes) ==
    LET n == ReadLeb128(bytes) IN
    [value |-> [i \in 1..n.value |-> CodeChar(n.rest[i])],
     rest |-> Drop(n.rest, n.value)]

\* variant: the encoder writes the address before the name
EncodeWarehouseAddressFirst(warehouse) ==
    LittleEndian(warehouse.id, 8) \o EncodeText(warehouse.address)
        \o EncodeText(warehouse.name)

EncodeWarehouse(warehouse) ==
    LittleEndian(warehouse.id, 8) \o EncodeText(warehouse.name)
        \o EncodeText(warehouse.address)

ReadWarehouse(bytes) ==
    LET id == ReadNat(bytes, 8)
        name == ReadText(id.rest)
        address == ReadText(name.rest) IN
    [value |-> Warehouse(id.value, name.value, address.value),
     rest |-> address.rest]

EncodeProduct(product) ==
    LittleEndian(product.id, 8) \o EncodeText(product.name)
        \o LittleEndian(product.added_at, 8)
        \o LittleEndian(product.quantity, 4)
        \o EncodeText(product.category)
        \o EncodeWarehouse(product.warehouse)
        \o LittleEndian(product.re_stocked_at, 8)

ReadProduct(bytes) ==
    LET id == ReadNat(bytes, 8)
        name == ReadText(id.rest)
        added_at == ReadNat(name.rest, 8)
        quantity == ReadNat(added_at.rest, 4)
        category == ReadText(quantity.rest)
        warehouse == ReadWarehouse(category.rest)
        re_stocked_at == ReadNat(warehouse.rest, 8) IN
    [value |-> Product(id.value, name.value, quantity.value, category.value,
                       warehouse.value, added_at.value, re_stocked_at.value),
     rest |-> re_stocked_at.rest]

\* impl Storable for Warehouse
Warehouse_to_bytes(warehouse) ==
    Magic \o WarehouseTag \o EncodeWarehouse(warehouse)

Warehouse_from_bytes(bytes) ==
    IF Len(bytes) >= 5 /\ SubSeq(bytes, 1, 5) = Magic \o WarehouseTag
    THEN LET r == ReadWarehouse(Drop(bytes, 5)) IN
         IF r.rest = <<>> THEN r.value ELSE DecodeTrap
    ELSE DecodeTrap

\* impl Storable for Product
Product_to_bytes(product) == Magic \o ProductTag \o EncodeProduct(product)

Product_from_bytes(bytes) ==
    IF Len(bytes) >= 5 /\ SubSeq(bytes, 1, 5) = Magic \o ProductTag
    THEN LET r == ReadProduct(Drop(bytes, 5)) IN
         IF r.rest = <<>> THEN r.value ELSE DecodeTrap
    ELSE DecodeTrap

----------------------------------------------------------------------------
(* Validation *)

\* variant: the address carries no length rule
ValidateWarehouseNameOnly(payload) == Len(payload.name) >= MinLen

\* WarehousePayload::validate
ValidateWarehousePayload(payload) ==
    Len(payload.name) >= MinLen /\ Len(payload.address) >= MinLen

\* ProductPayload::validate
ValidateProductPayload(payload) == Len(payload.name) >= MinLen

----------------------------------------------------------------------------
(* Replies *)

Reply(op, payload, status, value) ==
    [op |-> op, payload |-> payload, status |-> status, value |-> value]

Init ==
    /\ ID_COUNTER = 0
    /\ WAREHOUSE_STORAGE = <<>>
    /\ PRODUCT_STORAGE = <<>>
    /\ now = 0
    /\ last = Reply("init", <<>>, "Ok", <<>>)
    /\ returned = <<>>

----------------------------------------------------------------------------
(* Queries *)

get_all_warehouses ==
    LET warehouses == Iter(WAREHOUSE_STORAGE) IN
    /\ last' = IF Len(warehouses) = 0
               THEN Reply("get_all_warehouses", <<>>, "NotFound", <<>>)
               ELSE Reply("get_all_warehouses", <<>>, "Ok", warehouses)
    /\ UNCHANGED <<store, now, returned>>

get_warehouse_by_name(search) ==
    LET query == to_lowercase(search)
        incomplete_products == Filter(Iter(WAREHOUSE_STORAGE), query) IN
    /\ last' = IF Len(incomplete_products) = 0
               THEN Reply("get_warehouse_by_name", search, "NotFound", <<>>)
               ELSE Reply("get_warehouse_by_name", search, "Ok",
                          incomplete_products)
    /\ UNCHANGED <<store, now, returned>>

\* the reply of get_warehouse_by_id on a warehouse map
WarehouseById(map, id) ==
    IF Get(map, id) # <<>>
    THEN Reply("get_warehouse_by_id", id, "Ok", Get(map, id))
    ELSE Reply("get_warehouse_by_id", id, "NotFound", <<>>)

get_warehouse_by_id(id) ==
    /\ last' = WarehouseById(WAREHOUSE_STORAGE, id)
    /\ UNCHANGED <<store, now, returned>>

\* the reply of get_product on a product map
ProductById(map, id) ==
    IF Get(map, id) # <<>>
    THEN Reply("get_product", id, "Ok", Get(map, id))
    ELSE Reply("get_product", id, "NotFound", <<>>)

get_product(id) ==
    /\ last' = ProductById(PRODUCT_STORAGE, id)
    /\ UNCHANGED <<store, now, returned>>

----------------------------------------------------------------------------
(* Updates *)

add_warehouse(payload) ==
    IF ~ValidateWarehousePayload(payload)
    THEN /\ last' = Reply("add_warehouse", payload, "InvalidPayload", <<>>)
         /\ UNCHANGED <<store, now, returned>>
    ELSE /\ ID_COUNTER < MaxId
         /\ LET id == ID_COUNTER
                warehouse == Warehouse(id, payload.name, payload.address)
                previous == Get(WAREHOUSE_STORAGE, id) IN
            /\ ID_COUNTER' = NextCounter(ID_COUNTER)
            /\ WAREHOUSE_STORAGE' = Insert(WAREHOUSE_STORAGE, id, warehouse)
            /\ IF previous # <<>>
               THEN /\ last' = Reply("add_warehouse", payload,
                                     "InvalidPayload", <<>>)
                    /\ UNCHANGED returned
               ELSE /\ last' = Reply("add_warehouse", payload, "Ok",
                                     <<warehouse>>)
                    /\ returned' = Append(returned, id)
         /\ UNCHANGED <<PRODUCT_STORAGE, now>>

\* variant: the new text is written to the name and to the address
EditedWarehouseAndAddress(warehouse, name) ==
    [warehouse EXCEPT !.name = name, !.address = name]

\* variant: Warehouse { name, ..Default::default() }
EditedWarehouseFromDefault(warehouse, name) == Warehouse(0, name, <<>>)

\* the record edit_warehouse builds: Warehouse { name, ..warehouse.clone() }
EditedWarehouse(warehouse, name) == [warehouse EXCEPT !.name = name]

\* variant: the new name is also written into the items' embedded copies
edit_warehouse_propagating(payload) ==
    LET warehouse == Get(WAREHOUSE_STORAGE, payload.warehouse_id) IN
    IF warehouse # <<>>
    THEN LET new_warehouse == EditedWarehouse(warehouse[1], payload.name) IN
         /\ WAREHOUSE_STORAGE' =
                Insert(WAREHOUSE_STORAGE, warehouse[1].id, new_warehouse)
         /\ PRODUCT_STORAGE' =
                [k \in DOMAIN PRODUCT_STORAGE |->
                    IF PRODUCT_STORAGE[k].warehouse.id = warehouse[1].id
                    THEN [PRODUCT_STORAGE[k] EXCEPT !.warehouse = new_warehouse]
                    ELSE PRODUCT_STORAGE[k]]
         /\ last' = Reply("edit_warehouse", payload, "Ok", <<new_warehouse>>)
         /\ UNCHANGED <<ID_COUNTER, now, returned>>
    ELSE /\ last' = Reply("edit_warehouse", payload, "NotFound", <<>>)
         /\ UNCHANGED <<store, now, returned>>

edit_warehouse(payload) ==
    LET warehouse == Get(WAREHOUSE_STORAGE, payload.warehouse_id) IN
    IF warehouse # <<>>
    THEN LET new_warehouse == EditedWarehouse(warehouse[1], payload.name)
             previous == Get(WAREHOUSE_STORAGE, warehouse[1].id) IN
         /\ WAREHOUSE_STORAGE' =
                Insert(WAREHOUSE_STORAGE, warehouse[1].id, new_warehouse)
         /\ last' = IF previous # <<>>
                    THEN Reply("edit_warehouse", payload, "Ok",
                               <<new_warehouse>>)
                    ELSE Reply("edit_warehouse", payload, "InvalidPayload",
                               <<>>)
         /\ UNCHANGED <<ID_COUNTER, PRODUCT_STORAGE, now, returned>>
    ELSE /\ last' = Reply("edit_warehouse", payload, "NotFound", <<>>)
         /\ UNCHANGED <<store, now, returned>>

add_product(payload) ==
    IF ~ValidateProductPayload(payload)
    THEN /\ last' = Reply("add_product", payload, "InvalidPayload", <<>>)
         /\ UNCHANGED <<store, now, returned>>
    ELSE /\ ID_COUNTER < MaxId
         /\ LET id == ID_COUNTER
                warehouse == Get(WAREHOUSE_STORAGE, payload.warehouse_id) IN
            /\ ID_COUNTER' = NextCounter(ID_COUNTER)
            /\ IF warehouse # <<>>
               THEN LET product == Product(id, payload.name, payload.quantity,
                                           payload.category, warehouse[1],
                                           now, now)
                        previous == Get(PRODUCT_STORAGE, id) IN
                    /\ PRODUCT_STORAGE' = Insert(PRODUCT_STORAGE, id, product)
                    /\ IF previous = <<>>
                       THEN /\ last' = Reply("add_product", payload, "Ok",
                                             <<product>>)
                            /\ returned' = Append(returned, id)
                       ELSE /\ last' = Reply("add_product", payload,
                                             "InvalidPayload", <<>>)
                            /\ UNCHANGED returned
               ELSE /\ last' = Reply("add_product", payload, "NotFound", <<>>)
                    /\ UNCHANGED <<PRODUCT_STORAGE, returned>>
         /\ UNCHANGED <<WAREHOUSE_STORAGE, now>>

\* variant: a withdrawal of the whole stock is refused
InsufficientQuantityStrict(product, amount) == product.quantity <= amount

\* variant: the stock check is missing
NoQuantityCheck(product, amount) == FALSE

\* the check `product.quantity < payload.amount`
InsufficientQuantity(product, amount) == product.quantity < amount

\* the record remove_product_from_warehouse builds
WithdrawnProduct(product, amount) ==
    [product EXCEPT !.quantity = product.quantity - amount]

remove_product_from_warehouse(payload) ==
    LET product == Get(PRODUCT_STORAGE, payload.product_id) IN
    IF product # <<>>
    THEN IF InsufficientQuantity(product[1], payload.amount)
         THEN /\ last' = Reply("remove_product_from_warehouse", payload,
                               "InvalidPayload", <<>>)
              /\ UNCHANGED <<store, now, returned>>
         ELSE LET new_product == WithdrawnProduct(product[1], payload.amount)
                  previous == Get(PRODUCT_STORAGE, product[1].id) IN
              /\ PRODUCT_STORAGE' =
                     Insert(PRODUCT_STORAGE, product[1].id, new_product)
              /\ last' = IF previous # <<>>
                         THEN Reply("remove_product_from_warehouse", payload,
                                    "Ok", <<new_product>>)
                         ELSE Reply("remove_product_from_warehouse", payload,
                                    "InvalidPayload", <<>>)
              /\ UNCHANGED <<ID_COUNTER, WAREHOUSE_STORAGE, now, returned>>
    ELSE /\ last' = Reply("remove_product_from_warehouse", payload,
                          "NotFound", <<>>)
         /\ UNCHANGED <<store, now, returned>>

\* variant: Product { name, ..Default::default() }
EditedProductFromDefault(product, name) ==
    Product(0, name, 0, <<>>, Warehouse(0, <<>>, <<>>), 0, 0)

\* the record edit_product builds: Product { name, ..product.clone() }
EditedProduct(product, name) == [product EXCEPT !.name = name]

edit_product(payload) ==
    LET product == Get(PRODUCT_STORAGE, payload.product_id) IN
    IF product # <<>>
    THEN LET new_product == EditedProduct(product[1], payload.name)
             previous == Get(PRODUCT_STORAGE, product[1].id) IN
         /\ PRODUCT_STORAGE' =
                Insert(PRODUCT_STORAGE, product[1].id, new_product)
         /\ last' = IF previous # <<>>
                    THEN Reply("edit_product", payload, "Ok", <<new_product>>)
                    ELSE Reply("edit_product", payload, "InvalidPayload", <<>>)
         /\ UNCHANGED <<ID_COUNTER, WAREHOUSE_STORAGE, now, returned>>
    ELSE /\ last' = Reply("edit_product", payload, "NotFound", <<>>)
         /\ UNCHANGED <<store, now, returned>>

\* ic_cdk::api::time advances between messages
Tick ==
    /\ now < MaxTime
    /\ now' = now + 1
    /\ UNCHANGED <<store, last, returned>>

----------------------------------------------------------------------------

Next ==
    \/ get_all_warehouses
    \/ \E search \in SearchInputs : get_warehouse_by_name(search)
    \/ \E id \in Ids : get_warehouse_by_id(id)
    \/ \E id \in Ids : get_product(id)
    \/ \E payload \in WarehousePayload : add_warehouse(payload)
    \/ \E payload \in EditWarehousePayload : edit_warehouse(payload)
    \/ \E payload \in ProductPayload : add_product(payload)
    \/ \E payload \in GetProductPayload : remove_product_from_warehouse(payload)
    \/ \E payload \in EditProductPayload : edit_product(payload)
    \/ Tick

Spec == Init /\ [][Next]_vars

----------------------------------------------------------------------------
(* Vocabulary of the properties *)

\* the step is a call of `op` (a call leaves the system time alone)
CallStep(op) == now' = now /\ last'.op = op

Errors == {"NotFound", "InvalidPayload"}

Creates == {"add_warehouse", "add_product"}

----------------------------------------------------------------------------
(* C1: the id returned by each successful add_warehouse or add_product is  *)
(* distinct from the id returned by every earlier successful create of     *)
(* either kind.                                                            *)
C1_UniqueIds ==
    \A i, j \in 1..Len(returned) : i # j => returned[i] # returned[j]

\* a warehouse and a product have both been created
C1_Witness ==
    /\ Len(returned) = 2
    /\ returned[1] \in DOMAIN WAREHOUSE_STORAGE
    /\ returned[2] \in DOMAIN PRODUCT_STORAGE

(* C2: whenever a call returns NotFound or InvalidPayload, the identifier  *)
(* counter, the warehouse store and the product store are exactly as they  *)
(* were before the call.                                                   *)
C2_ErrorLeavesStore ==
    [][last'.status \in Errors => UNCHANGED store]_vars

(* C3: remove_product_from_warehouse never produces a stored or returned   *)
(* product with negative quantity; for an existing product a request with  *)
(* amount greater than the current quantity returns InvalidPayload and     *)
(* leaves the stored product unchanged; every stored quantity is >= 0.     *)
C3_QuantityNonNegative ==
    /\ [](\A id \in DOMAIN PRODUCT_STORAGE : PRODUCT_STORAGE[id].quantity >= 0)
    /\ []((last.op = "remove_product_from_warehouse" /\ last.status = "Ok")
            => last.value[1].quantity >= 0)
    /\ [][(/\ CallStep("remove_product_from_warehouse")
           /\ last'.payload.product_id \in DOMAIN PRODUCT_STORAGE
           /\ last'.payload.amount >
                 PRODUCT_STORAGE[last'.payload.product_id].quantity)
          => (/\ last'.status = "InvalidPayload"
              /\ PRODUCT_STORAGE' = PRODUCT_STORAGE)]_vars

\* a withdrawal of more than the stock was refused
C3_Witness ==
    /\ last.op = "remove_product_from_warehouse"
    /\ last.status = "InvalidPayload"
    /\ last.payload.product_id \in DOMAIN PRODUCT_STORAGE
    /\ PRODUCT_STORAGE[last.payload.product_id].quantity > 0
    /\ last.payload.amount > PRODUCT_STORAGE[last.payload.product_id].quantity

(* C4: a successful edit_warehouse leaves the stored warehouse's id and    *)
(* address unchanged, a successful edit_product leaves the stored          *)
(* product's id, embedded warehouse, quantity, category, added_at and      *)
(* re_stocked_at unchanged; only the name of the record under the given id *)
(* is replaced.                                                            *)
C4_EditChangesOnlyName ==
    [][/\ (CallStep("edit_warehouse") /\ last'.status = "Ok")
          => LET id == last'.payload.warehouse_id IN
             /\ id \in DOMAIN WAREHOUSE_STORAGE
             /\ WAREHOUSE_STORAGE'[id].id = WAREHOUSE_STORAGE[id].id
             /\ WAREHOUSE_STORAGE'[id].address = WAREHOUSE_STORAGE[id].address
             /\ WAREHOUSE_STORAGE' =
                   [WAREHOUSE_STORAGE EXCEPT ![id].name = last'.payload.name]
       /\ (CallStep("edit_product") /\ last'.status = "Ok")
          => LET id == last'.payload.product_id IN
             /\ id \in DOMAIN PRODUCT_STORAGE
             /\ \A f \in {"id", "warehouse", "quantity", "category",
                          "added_at", "re_stocked_at"} :
                   PRODUCT_STORAGE'[id][f] = PRODUCT_STORAGE[id][f]
             /\ PRODUCT_STORAGE' =
                   [PRODUCT_STORAGE EXCEPT ![id].name = last'.payload.name]
      ]_vars

\* a product in stock has just been renamed
C4_Witness ==
    /\ last.op = "edit_product"
    /\ last.status = "Ok"
    /\ PRODUCT_STORAGE[last.payload.product_id].name = <<"a","b">>
    /\ PRODUCT_STORAGE[last.payload.product_id].quantity > 0

(* C5: in every reachable state every stored warehouse has a name of at    *)
(* least 3 characters and an address of at least 3 characters, and every   *)
(* stored product has a name of at least 3 characters.                     *)
C5_MinLengths ==
    /\ \A id \in DOMAIN WAREHOUSE_STORAGE :
          /\ Len(WAREHOUSE_STORAGE[id].name) >= 3
          /\ Len(WAREHOUSE_STORAGE[id].address) >= 3
    /\ \A id \in DOMAIN PRODUCT_STORAGE : Len(PRODUCT_STORAGE[id].name) >= 3

(* C6: after any edit_warehouse call the product store is unchanged; no    *)
(* step changes the warehouse record embedded in a stored product, so each *)
(* product keeps the copy embedded when it was created (old name          *)
(* included).                                                              *)
C6_EditDoesNotPropagate ==
    [][/\ CallStep("edit_warehouse") => PRODUCT_STORAGE' = PRODUCT_STORAGE
       /\ \A id \in DOMAIN PRODUCT_STORAGE :
             /\ id \in DOMAIN PRODUCT_STORAGE'
             /\ PRODUCT_STORAGE'[id].warehouse = PRODUCT_STORAGE[id].warehouse
      ]_vars

\* a warehouse was renamed and a product still embeds its old name
C6_Witness ==
    /\ last.op = "edit_warehouse"
    /\ last.status = "Ok"
    /\ \E id \in DOMAIN PRODUCT_STORAGE :
          /\ PRODUCT_STORAGE[id].warehouse.id = last.payload.warehouse_id
          /\ PRODUCT_STORAGE[id].warehouse.name #
                WAREHOUSE_STORAGE[last.payload.warehouse_id].name

(* C7: the record returned by a successful add_product, edit_product or    *)
(* remove_product_from_warehouse is what get_product of its id returns     *)
(* right after the call, and the record returned by a successful           *)
(* add_warehouse or edit_warehouse is what get_warehouse_by_id of its id   *)
(* returns.                                                                *)
C7_ReturnedIsStored ==
    /\ (/\ last.op \in {"add_product", "edit_product",
                        "remove_product_from_warehouse"}
        /\ last.status = "Ok")
       => LET reply == ProductById(PRODUCT_STORAGE, last.value[1].id) IN
          reply.status = "Ok" /\ reply.value = last.value
    /\ (last.op \in {"add_warehouse", "edit_warehouse"} /\ last.status = "Ok")
       => LET reply == WarehouseById(WAREHOUSE_STORAGE, last.value[1].id) IN
          reply.status = "Ok" /\ reply.value = last.value

\* a withdrawal that took stock has just returned
C7_Witness ==
    /\ last.op = "remove_product_from_warehouse"
    /\ last.status = "Ok"
    /\ last.payload.amount > 0

(* C8: an id becomes a key of the warehouse store only by a successful     *)
(* add_warehouse returning it and a key of the product store only by a     *)
(* successful add_product returning it; a key never disappears;            *)
(* get_warehouse_by_id and get_product return NotFound exactly for ids     *)
(* that are not keys, and Ok otherwise.                                    *)
C8_Lifecycle ==
    [][/\ DOMAIN WAREHOUSE_STORAGE \subseteq DOMAIN WAREHOUSE_STORAGE'
       /\ DOMAIN PRODUCT_STORAGE \subseteq DOMAIN PRODUCT_STORAGE'
       /\ \A id \in (DOMAIN WAREHOUSE_STORAGE') \ (DOMAIN WAREHOUSE_STORAGE) :
             /\ CallStep("add_warehouse")
             /\ last'.status = "Ok"
             /\ last'.value[1].id = id
       /\ \A id \in (DOMAIN PRODUCT_STORAGE') \ (DOMAIN PRODUCT_STORAGE) :
             /\ CallStep("add_product")
             /\ last'.status = "Ok"
             /\ last'.value[1].id = id
       /\ CallStep("get_warehouse_by_id")
          => /\ last'.status \in {"Ok", "NotFound"}
             /\ last'.status = "NotFound"
                   <=> last'.payload \notin DOMAIN WAREHOUSE_STORAGE
       /\ CallStep("get_product")
          => /\ last'.status \in {"Ok", "NotFound"}
             /\ last'.status = "NotFound"
                   <=> last'.payload \notin DOMAIN PRODUCT_STORAGE
      ]_vars

\* get_product missed an id while another product is stored
C8_Witness ==
    /\ last.op = "get_product"
    /\ last.status = "NotFound"
    /\ PRODUCT_STORAGE # <<>>
    /\ last.payload \in DOMAIN WAREHOUSE_STORAGE

(* C9: add_warehouse with a name or an address shorter than 3 characters   *)
(* and add_product with a name shorter than 3 characters return            *)
(* InvalidPayload, insert no record and leave the counter unchanged.       *)
C9_InvalidCreate ==
    [][/\ (/\ CallStep("add_warehouse")
           /\ (Len(last'.payload.name) < 3 \/ Len(last'.payload.address) < 3))
          => (last'.status = "InvalidPayload" /\ UNCHANGED store)
       /\ (CallStep("add_product") /\ Len(last'.payload.name) < 3)
          => (last'.status = "InvalidPayload" /\ UNCHANGED store)
      ]_vars

\* add_warehouse refused a payload whose only fault is the short address
C9_Witness ==
    /\ last.op = "add_warehouse"
    /\ last.status = "InvalidPayload"
    /\ Len(last.payload.name) >= 3
    /\ Len(last.payload.address) < 3

(* C10: the counter starts at 0 and is shared by both kinds; every         *)
(* allocation returns the counter's value before the call and leaves the   *)
(* counter exactly one larger; the counter never decreases; the first      *)
(* successful create on a fresh store returns id 0.                        *)
C10_Allocator ==
    /\ ID_COUNTER = 0
    /\ [][/\ ID_COUNTER' >= ID_COUNTER
          /\ (\E op \in Creates : CallStep(op) /\ last'.status = "Ok")
             => (/\ last'.value[1].id = ID_COUNTER
                 /\ ID_COUNTER' = ID_COUNTER + 1)]_vars
    /\ [](Len(returned) >= 1 => returned[1] = 0)


(* C11: get_all_warehouses returns NotFound if and only if the warehouse   *)
(* store is empty; otherwise it returns exactly the warehouses currently   *)
(* stored, each once, in ascending id order.                               *)
C11_ListAll ==
    last.op = "get_all_warehouses"
    => /\ last.status \in {"Ok", "NotFound"}
       /\ last.status = "NotFound" <=> DOMAIN WAREHOUSE_STORAGE = {}
       /\ last.status = "Ok"
          => /\ Len(last.value) = Cardinality(DOMAIN WAREHOUSE_STORAGE)
             /\ \A k \in DOMAIN WAREHOUSE_STORAGE :
                   \E i \in 1..Len(last.value) :
                      last.value[i] = WAREHOUSE_STORAGE[k]
             /\ \A i, j \in 1..Len(last.value) :
                   i < j => last.value[i].id < last.value[j].id

\* two warehouses were listed
C11_Witness ==
    /\ last.op = "get_all_warehouses"
    /\ last.status = "Ok"
    /\ Len(last.value) = 2

\* `name` holds `search` at some offset, letters compared without case
EqIgnoreCase(x, y) ==
    x = y \/ {x, y} \in { {"a", "A"}, {"b", "B"}, {"c", "C"} }

MatchesIgnoreCase(name, search) ==
    \E off \in 0..(Len(name) - Len(search)) :
       \A j \in 1..Len(search) : EqIgnoreCase(name[off + j], search[j])

(* C12: get_warehouse_by_name returns exactly the stored warehouses whose  *)
(* name contains the search string as a substring, letters compared        *)
(* without regard to case, and returns NotFound if and only if no stored   *)
(* warehouse matches.                                                      *)
C12_FindByName ==
    last.op = "get_warehouse_by_name"
    => LET matching == {k \in DOMAIN WAREHOUSE_STORAGE :
                          MatchesIgnoreCase(WAREHOUSE_STORAGE[k].name,
                                            last.payload)} IN
       /\ last.status \in {"Ok", "NotFound"}
       /\ last.status = "NotFound" <=> matching = {}
       /\ last.status = "Ok"
          => /\ Len(last.value) = Cardinality(matching)
             /\ \A k \in matching :
                   \E i \in 1..Len(last.value) :
                      last.value[i] = WAREHOUSE_STORAGE[k]
             /\ \A i \in 1..Len(last.value) :
                   \E k \in matching : last.value[i] = WAREHOUSE_STORAGE[k]

\* a search written in upper case found one warehouse and skipped another
C12_Witness ==
    /\ last.op = "get_warehouse_by_name"
    /\ last.status = "Ok"
    /\ last.payload = <<"B", "c">>
    /\ Len(last.value) = 1
    /\ Cardinality(DOMAIN WAREHOUSE_STORAGE) = 2


(* C13: for every stored product added_at is the time of its creation and  *)
(* re_stocked_at the time of its last modification: after a successful     *)
(* remove_product_from_warehouse executed at time t the stored product's   *)
(* re_stocked_at equals t while added_at still equals the creation time.   *)
C13_Timestamps ==
    [][/\ (CallStep("add_product") /\ last'.status = "Ok")
          => PRODUCT_STORAGE'[last'.value[1].id].added_at = now
       /\ \A id \in DOMAIN PRODUCT_STORAGE :
             PRODUCT_STORAGE'[id].added_at = PRODUCT_STORAGE[id].added_at
       /\ (CallStep("remove_product_from_warehouse") /\ last'.status = "Ok")
          => PRODUCT_STORAGE'[last'.payload.product_id].re_stocked_at = now
      ]_vars


C15_AddProduct ==
    [][(CallStep("add_product") /\ Len(last'.payload.name) >= 3)
       => IF last'.payload.warehouse_id \notin DOMAIN WAREHOUSE_STORAGE
          THEN /\ last'.status = "NotFound"
               /\ PRODUCT_STORAGE' = PRODUCT_STORAGE
          ELSE /\ last'.status = "Ok"
               /\ LET created == last'.value[1] IN
                  /\ created.name = last'.payload.name
                  /\ created.category = last'.payload.category
                  /\ created.quantity = last'.payload.quantity
                  /\ created.added_at = created.re_stocked_at
                  /\ created.warehouse =
                        WAREHOUSE_STORAGE[last'.payload.warehouse_id]
                  /\ created.id \notin DOMAIN PRODUCT_STORAGE
                  /\ PRODUCT_STORAGE' =
                        Insert(PRODUCT_STORAGE, created.id, created)
      ]_vars

\* a product was created at a later time against a renamed warehouse
C15_Witness ==
    /\ last.op = "add_product"
    /\ last.status = "Ok"
    /\ last.value[1].warehouse.name = <<"a", "b">>
    /\ last.value[1].added_at > 0
    /\ last.value[1].quantity > 0


(* C16: the insert sanity checks never fire: the insert of add_warehouse   *)
(* and add_product never finds a previous value, so a create with valid    *)
(* input (and, for add_product, an existing warehouse_id) never returns    *)
(* InvalidPayload; the re-insert of edit_warehouse, edit_product and       *)
(* remove_product_from_warehouse always finds a previous value, so the     *)
(* edits never return InvalidPayload and the withdrawal returns            *)
(* InvalidPayload only when amount exceeds the current quantity.           *)
C16_SanityChecksNeverFire ==
    /\ [](/\ ID_COUNTER \notin DOMAIN WAREHOUSE_STORAGE
          /\ ID_COUNTER \notin DOMAIN PRODUCT_STORAGE
          /\ \A k \in DOMAIN WAREHOUSE_STORAGE :
                WAREHOUSE_STORAGE[k].id \in DOMAIN WAREHOUSE_STORAGE
          /\ \A k \in DOMAIN PRODUCT_STORAGE :
                PRODUCT_STORAGE[k].id \in DOMAIN PRODUCT_STORAGE)
    /\ [][/\ (/\ CallStep("add_warehouse")
              /\ Len(last'.payload.name) >= 3
              /\ Len(last'.payload.address) >= 3)
             => last'.status = "Ok"
          /\ (/\ CallStep("add_product")
              /\ Len(last'.payload.name) >= 3
              /\ last'.payload.warehouse_id \in DOMAIN WAREHOUSE_STORAGE)
             => last'.status = "Ok"
          /\ (CallStep("edit_warehouse") \/ CallStep("edit_product"))
             => last'.status # "InvalidPayload"
          /\ (/\ CallStep("remove_product_from_warehouse")
              /\ last'.status = "InvalidPayload")
             => /\ last'.payload.product_id \in DOMAIN PRODUCT_STORAGE
                /\ last'.payload.amount >
                      PRODUCT_STORAGE[last'.payload.product_id].quantity
         ]_vars

\* the second create of a store has succeeded and an edit followed
C16_Witness ==
    /\ Len(returned) = 2
    /\ last.op = "edit_warehouse"
    /\ last.status = "Ok"
    /\ returned[2] = last.payload.warehouse_id


C18_ReferentialIntegrity ==
    \A k \in DOMAIN PRODUCT_STORAGE :
       LET embedded == PRODUCT_STORAGE[k].warehouse IN
       /\ embedded.id \in DOMAIN WAREHOUSE_STORAGE
       /\ embedded.address = WAREHOUSE_STORAGE[embedded.id].address
       /\ WAREHOUSE_STORAGE[embedded.id].id = embedded.id

\* get_product returned a product whose warehouse has since been renamed
C18_Witness ==
    /\ last.op = "get_product"
    /\ last.status = "Ok"
    /\ last.value[1].warehouse.name #
          WAREHOUSE_STORAGE[last.value[1].warehouse.id].name

(* C19: in every reachable state the identifier counter is strictly        *)
(* greater than every key of the warehouse store and every key of the      *)
(* product store, and no id is a key of both stores.                       *)
C19_CounterAboveKeys ==
    /\ \A k \in DOMAIN WAREHOUSE_STORAGE : k < ID_COUNTER
    /\ \A k \in DOMAIN PRODUCT_STORAGE : k < ID_COUNTER
    /\ (DOMAIN WAREHOUSE_STORAGE) \cap (DOMAIN PRODUCT_STORAGE) = {}

\* both stores hold a record and the counter is at its bound
C19_Witness ==
    /\ DOMAIN WAREHOUSE_STORAGE # {}
    /\ DOMAIN PRODUCT_STORAGE # {}
    /\ ID_COUNTER = MaxId

(* C20: in every reachable state every entry (k, r) of the warehouse store *)
(* and of the product store has r.id = k; edit_warehouse, edit_product and *)
(* remove_product_from_warehouse write to the key they looked up and never *)
(* create a new key.                                                       *)
C20_IdIsKey ==
    /\ [](/\ \A k \in DOMAIN WAREHOUSE_STORAGE : WAREHOUSE_STORAGE[k].id = k
          /\ \A k \in DOMAIN PRODUCT_STORAGE : PRODUCT_STORAGE[k].id = k)
    /\ [][(\/ CallStep("edit_warehouse")
           \/ CallStep("edit_product")
           \/ CallStep("remove_product_from_warehouse"))
          => /\ DOMAIN WAREHOUSE_STORAGE' = DOMAIN WAREHOUSE_STORAGE
             /\ DOMAIN PRODUCT_STORAGE' = DOMAIN PRODUCT_STORAGE
             /\ \A k \in DOMAIN WAREHOUSE_STORAGE :
                   (~CallStep("edit_warehouse")
                      \/ k # last'.payload.warehouse_id)
                   => WAREHOUSE_STORAGE'[k] = WAREHOUSE_STORAGE[k]
             /\ \A k \in DOMAIN PRODUCT_STORAGE :
                   (CallStep("edit_warehouse")
                      \/ k # last'.payload.product_id)
                   => PRODUCT_STORAGE'[k] = PRODUCT_STORAGE[k]
         ]_vars

\* the warehouse with the larger id of two was renamed
C20_Witness ==
    /\ last.op = "edit_warehouse"
    /\ last.status = "Ok"
    /\ last.payload.warehouse_id > 0
    /\ Cardinality(DOMAIN WAREHOUSE_STORAGE) = 2
    /\ WAREHOUSE_STORAGE[last.payload.warehouse_id].name = <<"a", "b">>

====
